---- MODULE Spec2Model ----
(***************************************************************************)
(* Streamly (src/app.js): a browser catalog that seeds an IndexedDB object *)
(* store from catalog.json on first run, mirrors the store in itemsCache,  *)
(* and renders it as a hero plus category rows, filtered live by a search  *)
(* box.                                                                    *)
(*                                                                         *)
(* JavaScript strings are sequences of one-character strings; the values   *)
(* undefined and null are the one-element sequences Undef and Null, which  *)
(* no string equals; an array is a sequence headed by the marker "[]".     *)
(***************************************************************************)
EXTENDS Integers, Sequences, FiniteSets, TLC

\* ---------------------------------------------------------------- bounds
\* Longest manifest drawn from every combination of RawRecords.
MaxManifest == 2
\* The single-category manifest fills MaxRows rows and starts one more.
MaxRows == 1
\* Writes of one session whose transaction aborts after the request succeeded.
MaxAborts == 1
\* Date.now() reads 0..MaxClock, never decreasing.
MaxClock == 1
\* Longest text typed into the search box.
MaxQueryLen == 3

\* ------------------------------------------------------- program constants
CARDS_PER_ROW == 8

\* ---------------------------------------------------------------- strings
Undef == <<"undefined">>
Null == <<"null">>

\* Code-unit order of the characters the model uses (ASCII order).
CharOrder ==
  << " ", "!", "#", "(", ")", "-",
     "0", "1", "2", "3", "4", "5", "6", "7", "8", "9",
     "A", "B", "D", "F", "U",
     "a", "b", "c", "d", "e", "f", "g", "i", "l", "m", "n", "o", "r", "s", "t",
     "u", "x", "y", "z" >>

CharCode(c) == CHOOSE i \in 1..Len(CharOrder) : CharOrder[i] = c

DigitChars == <<"0", "1", "2", "3", "4", "5", "6", "7", "8", "9">>

IsDigit(c) == \E i \in 1..10 : DigitChars[i] = c

DigitValue(c) == (CHOOSE i \in 1..10 : DigitChars[i] = c) - 1

\* String(n) for a natural number: its decimal digits.
RECURSIVE NumToStr(_)
NumToStr(n) ==
  IF n < 10 THEN <<DigitChars[n + 1]>>
  ELSE NumToStr(n \div 10) \o <<DigitChars[(n % 10) + 1]>>

\* String.prototype.toLowerCase, one character.
LowerChar(c) ==
  CASE c = "A" -> "a"
    [] c = "B" -> "b"
    [] c = "D" -> "d"
    [] c = "F" -> "f"
    [] c = "U" -> "u"
    [] OTHER -> c

ToLowerCase(s) == [i \in 1..Len(s) |-> LowerChar(s[i])]

\* The class [a-z0-9] of the id regular expression.
IsSlugChar(c) ==
  \/ IsDigit(c)
  \/ CharCode(c) >= CharCode("a") /\ CharCode(c) <= CharCode("z")

\* s.replace(/[^a-z0-9]+/g, '-'): every maximal run outside the class
\* becomes one "-".
RECURSIVE ReplaceRuns(_)
ReplaceRuns(s) ==
  IF s = <<>> THEN <<>>
  ELSE IF IsSlugChar(Head(s)) THEN <<Head(s)>> \o ReplaceRuns(Tail(s))
  ELSE IF Len(s) > 1 /\ ~IsSlugChar(s[2]) THEN ReplaceRuns(Tail(s))
  ELSE <<"-">> \o ReplaceRuns(Tail(s))

IsWhite(c) == c = " "

\* String.prototype.trim.
RECURSIVE TrimStart(_)
TrimStart(s) ==
  IF s # <<>> /\ IsWhite(Head(s)) THEN TrimStart(Tail(s)) ELSE s

RECURSIVE TrimEnd(_)
TrimEnd(s) ==
  IF s # <<>> /\ IsWhite(s[Len(s)]) THEN TrimEnd(SubSeq(s, 1, Len(s) - 1))
  ELSE s

Trim(s) == TrimEnd(TrimStart(s))

\* String.prototype.includes.
Includes(s, q) ==
  \E i \in 0..(Len(s) - Len(q)) : SubSeq(s, i + 1, i + Len(q)) = q

\* Order of two strings as IndexedDB keys: by code units, a prefix first.
RECURSIVE StrLess(_, _)
StrLess(a, b) ==
  IF b = <<>> THEN FALSE
  ELSE IF a = <<>> THEN TRUE
  ELSE IF Head(a) = Head(b) THEN StrLess(Tail(a), Tail(b))
  ELSE CharCode(Head(a)) < CharCode(Head(b))

\* JavaScript truthiness of a string-or-absent value (x || y, x ? y : z).
Truthy(v) == v \notin {Undef, Null, <<>>}

Or(v, d) == IF Truthy(v) THEN v ELSE d

\* ------------------------------------------------------------ raw records
Untitled == <<"U", "n", "t", "i", "t", "l", "e", "d">>
Uncategorized ==
  <<"U", "n", "c", "a", "t", "e", "g", "o", "r", "i", "z", "e", "d">>
Featured == <<"F", "e", "a", "t", "u", "r", "e", "d">>
ItemPrefix == <<"i", "t", "e", "m", "-">>
EmptyArray == <<"[]">>

\* A manifest record with no field at all.
RecBare ==
  [id |-> Undef, title |-> Undef, year |-> Undef, description |-> Undef,
   poster |-> Undef, category |-> Undef, themeColor |-> Undef,
   sources |-> Undef, source |-> Undef]

\* {title: "A"}
RecAlpha == [RecBare EXCEPT !.title = <<"A">>]

\* {id: "x", title: "A", description: "a", category: "D", themeColor: "#1",
\*  year: 1999, poster: "p", sources: [u1]}
RecThemed ==
  [RecBare EXCEPT !.id = <<"x">>, !.title = <<"A">>, !.year = <<"1999">>,
                  !.description = <<"a">>, !.poster = <<"p">>,
                  !.category = <<"D">>, !.themeColor = <<"#", "1">>,
                  !.sources = <<"[]", "u1">>]

\* {id: "x", title: "a b", category: "7", source: u2}: the id of RecThemed,
\* a category that is an array index, the legacy singular source.
RecDup ==
  [RecBare EXCEPT !.id = <<"x">>, !.title = <<"a", " ", "b">>,
                  !.category = <<"7">>, !.source = <<"u2">>]

\* {id: "b", title: "AA", category: "constructor"}: a category that names
\* a property every object inherits.
RecProto ==
  [RecBare EXCEPT !.id = <<"b">>, !.title = <<"A", "A">>,
                  !.category =
                    <<"c", "o", "n", "s", "t", "r", "u", "c", "t", "o", "r">>]

\* The JSON number 5: a truthy value that is no string.
NumFive == <<"number", "5">>

\* A value is a string (and has the String.prototype methods).
IsString(v) == v = <<>> \/ Head(v) \notin {"undefined", "null", "number", "[]"}

\* {title: 5}
RecNumTitle == [RecBare EXCEPT !.title = NumFive]

\* The JSON value null as an element of the catalog array.
JsonNull == [null |-> TRUE]

\* The records every manifest up to MaxManifest long is built from.
RawRecords == {RecBare, RecAlpha, RecThemed, RecDup}

\* {id: String(k), title: "B", category: "D"}
BulkRecord(k) ==
  [RecBare EXCEPT !.id = NumToStr(k), !.title = <<"B">>,
                  !.category = <<"D">>]

RECURSIVE SeqsUpTo(_, _)
SeqsUpTo(S, n) ==
  IF n = 0 THEN {<<>>}
  ELSE LET shorter == SeqsUpTo(S, n - 1)
       IN shorter \cup {Append(s, x) : s \in {t \in shorter : Len(t) = n - 1},
                                       x \in S}

BulkManifest == [k \in 1..(MaxRows * CARDS_PER_ROW + 1) |-> BulkRecord(k)]

\* A catalog whose second record groupItems cannot group.
ProtoManifest == <<RecThemed, RecProto>>

\* Catalogs whose first element is no well-formed record.
NumTitleManifest == <<RecNumTitle, RecThemed>>
NullManifest == <<JsonNull, RecAlpha>>

\* The JSON arrays catalog.json may hold.
Manifests ==
  SeqsUpTo(RawRecords, MaxManifest)
    \cup {BulkManifest, ProtoManifest, NumTitleManifest, NullManifest}

\* ---------------------------------------------------------- normalization
\* The id expression of the seeding loop, Date.now() reading now.
DeriveId(it, now) ==
  IF Truthy(it.id) THEN it.id
  ELSE IF Truthy(it.title)
    THEN ReplaceRuns(ToLowerCase(it.title)) \o <<"-">> \o NumToStr(now)
    ELSE ItemPrefix \o NumToStr(now)

\* The loop body throws a TypeError before it reaches idbPut: it.id read
\* off null, or toLowerCase called on a title that is no string.
NormalizeThrows(it) ==
  \/ it = JsonNull
  \/ /\ it # JsonNull
     /\ ~Truthy(it.id)
     /\ Truthy(it.title)
     /\ ~IsString(it.title)

\* The item object the seeding loop builds from a manifest record.
Normalize(it, now) ==
  [id |-> DeriveId(it, now),
   title |-> Or(it.title, Untitled),
   year |-> it.year,
   description |-> Or(it.description, <<>>),
   poster |-> Or(it.poster, <<>>),
   category |-> Or(it.category, Uncategorized),
   themeColor |-> Or(it.themeColor, Null),
   sources |-> IF Truthy(it.sources) THEN it.sources
               ELSE IF Truthy(it.source) THEN EmptyArray \o it.source
               ELSE EmptyArray]

\* ------------------------------------------------------------ object store
\* The items object store is a sequence of records in key (id) order.
RECURSIVE InsertByKey(_, _)
InsertByKey(s, item) ==
  IF s = <<>> THEN <<item>>
  ELSE IF StrLess(item.id, Head(s).id) THEN <<item>> \o s
  ELSE <<Head(s)>> \o InsertByKey(Tail(s), item)

\* IDBObjectStore.add semantics without the key check: the record is
\* inserted beside the one that holds its key.
StoreAddBeside(s, item) == InsertByKey(s, item)

\* IDBObjectStore.put on a store with keyPath 'id': the record replaces the
\* one with its key, if any.
StorePut(s, item) ==
  InsertByKey(SelectSeq(s, LAMBDA r : r.id # item.id), item)

\* ------------------------------------------------------------------- view
\* Property names a plain object inherits with a truthy value (those the
\* model's alphabet can spell): grouped[name] is never undefined.
InheritedKeys ==
  {<<"c", "o", "n", "s", "t", "r", "u", "c", "t", "o", "r">>}

\* The number a string of decimal digits denotes.
RECURSIVE StrToNum(_)
StrToNum(s) ==
  IF s = <<>> THEN 0
  ELSE 10 * StrToNum(SubSeq(s, 1, Len(s) - 1)) + DigitValue(s[Len(s)])

\* A canonical array index is the decimal form of an integer in 0..2^32-2.
\* 2^32 - 2, the largest array index, in decimal.
MaxIndexStr == <<"4", "2", "9", "4", "9", "6", "7", "2", "9", "4">>

IsArrayIndex(s) ==
  /\ s # <<>>
  /\ \A i \in 1..Len(s) : IsDigit(s[i])
  /\ Len(s) > 1 => s[1] # "0"
  /\ \/ Len(s) < Len(MaxIndexStr)
     \/ Len(s) = Len(MaxIndexStr) /\ ~StrLess(MaxIndexStr, s)

CategoryKey(item) == Or(item.category, Featured)

\* The keys of the accumulator in the order the reduce creates them.
RECURSIVE InsertionKeys(_, _)
InsertionKeys(items, seen) ==
  IF items = <<>> THEN seen
  ELSE LET cat == CategoryKey(Head(items))
       IN InsertionKeys(Tail(items),
            IF \E i \in 1..Len(seen) : seen[i] = cat THEN seen
            ELSE Append(seen, cat))

RECURSIVE InsertByNumber(_, _)
InsertByNumber(s, k) ==
  IF s = <<>> THEN <<k>>
  ELSE IF StrToNum(k) < StrToNum(Head(s)) THEN <<k>> \o s
  ELSE <<Head(s)>> \o InsertByNumber(Tail(s), k)

RECURSIVE SortByNumber(_)
SortByNumber(s) ==
  IF s = <<>> THEN <<>> ELSE InsertByNumber(SortByNumber(Tail(s)), Head(s))

\* Object.keys of an object whose own string keys were created in the order
\* given: array indices first, ascending, then the rest as created.
ObjectKeys(created) ==
  SortByNumber(SelectSeq(created, IsArrayIndex))
    \o SelectSeq(created, LAMBDA k : ~IsArrayIndex(k))

\* groupItems: threw when the reduce hits an inherited property (its value
\* has no push); else the groups, as Object.keys enumerates them.
GroupItems(items) ==
  IF \E i \in 1..Len(items) : CategoryKey(items[i]) \in InheritedKeys
  THEN [threw |-> TRUE, groups |-> <<>>]
  ELSE [threw |-> FALSE,
        groups |->
          LET keys == ObjectKeys(InsertionKeys(items, <<>>))
          IN [k \in 1..Len(keys) |->
                [cat |-> keys[k],
                 items |-> SelectSeq(items,
                             LAMBDA it : CategoryKey(it) = keys[k])]]]

\* The hero shown for an empty cache.
NoContentHero ==
  [title |-> <<"N", "o", " ", "c", "o", "n", "t", "e", "n", "t">>,
   description |-> <<"A", "d", "d", " ", "i", "t", "e", "m", "s">>,
   poster |-> <<>>,
   themeColor |-> <<"#", "e", "5", "0", "9", "1", "4">>]

\* A pickHero that never looks for a theme color.
HeroFirst(items) == IF Len(items) = 0 THEN NoContentHero ELSE items[1]

\* pickHero over a sequence of items.
HeroOf(items) ==
  IF Len(items) = 0 THEN NoContentHero
  ELSE IF \E i \in 1..Len(items) : Truthy(items[i].themeColor)
    THEN items[CHOOSE i \in 1..Len(items) :
                 /\ Truthy(items[i].themeColor)
                 /\ \A j \in 1..(i - 1) : ~Truthy(items[j].themeColor)]
    ELSE items[1]

\* A placeholder card (a null slot of a row).
NullSlot == [empty |-> TRUE]

MoreSuffix == <<" ", "(", "m", "o", "r", "e", ")">>

\* Padding that skips the remainder test: a full group gets a whole row of
\* placeholders.
PadGroupAlways(items) ==
  items \o [i \in 1..(CARDS_PER_ROW - (Len(items) % CARDS_PER_ROW)) |->
             NullSlot]

\* A group's items padded with null to a multiple of CARDS_PER_ROW.
PadGroup(items) ==
  LET remainder == Len(items) % CARDS_PER_ROW
  IN IF remainder # 0
     THEN items \o [i \in 1..(CARDS_PER_ROW - remainder) |-> NullSlot]
     ELSE items

\* The rows of one category: consecutive chunks of the padded sequence.
RowsOfGroup(g) ==
  LET raw == PadGroup(g.items)
      starts == {s \in 0..Len(raw) : s % CARDS_PER_ROW = 0 /\ s < Len(raw)}
  IN [r \in 1..Cardinality(starts) |->
        LET start == (r - 1) * CARDS_PER_ROW
        IN [label |-> g.cat \o (IF start > 0 THEN MoreSuffix ELSE <<>>),
            cards |-> SubSeq(raw, start + 1,
                        IF start + CARDS_PER_ROW <= Len(raw)
                        THEN start + CARDS_PER_ROW ELSE Len(raw))]]

RECURSIVE ConcatRows(_)
ConcatRows(groups) ==
  IF groups = <<>> THEN <<>>
  ELSE RowsOfGroup(Head(groups)) \o ConcatRows(Tail(groups))

\* renderRows: the sections appended to #rows (none, and the "No content
\* available" paragraph instead, when there is no group).
RenderRows(groups) == ConcatRows(groups)

\* The text a search is matched against.
SearchText(i) ==
  ToLowerCase(i.title \o <<" ">> \o Or(i.description, <<>>) \o <<" ">>
                \o Or(i.category, <<>>))

\* A search that groups the whole cache, the filter left out.
FilterNothing(items, q) == items

\* itemsCache.filter(...) of onSearch.
FilterItems(items, q) ==
  SelectSeq(items, LAMBDA i : Includes(SearchText(i), q))

\* ------------------------------------------------------------------ state
VARIABLES
  store,       \* the items object store of streamly-db-v1 (durable)
  db,          \* the module's db handle: "null" or "open"
  itemsCache,  \* the module's itemsCache
  pc,          \* where init() stands
  catalog,     \* seedFromCatalogIfEmpty: the parsed catalog.json
  idx,         \* seedFromCatalogIfEmpty: position of the for-of loop
  pending,     \* the item of the put request in flight
  clock,       \* the last reading of Date.now()
  listening,   \* setupUI has registered onSearch
  search,      \* the value of the #search input
  hero,        \* the item renderHero last showed
  rows,        \* the sections of #rows
  shown,       \* the call that filled #rows, and its query
  fetches,     \* fetch('catalog.json') calls of this session
  fetchRes,    \* how the last fetch ended
  fetched,     \* catalog.length of the last catalog fetched
  reloadRes,   \* how the loadItems after the seeding loop ended
  puts,        \* idbPut calls of this session, with how each ended
  startCount,  \* records in the store when this session began
  calls,       \* seedFromCatalogIfEmpty calls of this session
  mark,        \* fetches, puts and store size when the last call began
  warned       \* the arguments of the last console.warn of this session

vars ==
  <<store, db, itemsCache, pc, catalog, idx, pending, clock,
    listening, search, hero, rows, shown, fetches, fetchRes, fetched,
    reloadRes, puts, startCount, calls, mark, warned>>

durable == <<store, clock, startCount>>
cacheVars == <<db, itemsCache>>
seedVars == <<catalog, idx, pending>>
viewVars == <<listening, search, hero, rows, shown>>
logVars ==
  <<fetches, fetchRes, fetched, reloadRes, puts, calls, mark, warned>>

NoItem == [none |-> TRUE]
NoHero == [none |-> TRUE]
NotShown == [kind |-> "none", q |-> <<>>]
NoMark == [fetches |-> 0, puts |-> 0, stored |-> 0]
NoWarning == [none |-> TRUE]

\* The characters a user types into the search box.
SearchKeys == {"A", " "}

Aborts == Cardinality({i \in 1..Len(puts) : puts[i].res = "aborted"})

\* A page load: the module's variables as lines 11-13 set them, the page as
\* served, the database as the last session left it.
FreshPage(st) ==
  /\ db' = "null"
  /\ itemsCache' = <<>>
  /\ pc' = "openDb"
  /\ catalog' = <<>>
  /\ idx' = 0
  /\ pending' = NoItem
  /\ listening' = FALSE
  /\ search' = <<>>
  /\ hero' = NoHero
  /\ rows' = <<>>
  /\ shown' = NotShown
  /\ fetches' = 0
  /\ fetchRes' = "none"
  /\ fetched' = 0
  /\ reloadRes' = "none"
  /\ puts' = <<>>
  /\ startCount' = Len(st)
  /\ calls' = 0
  /\ mark' = NoMark
  /\ warned' = NoWarning

Init ==
  /\ store = <<>>
  /\ clock = 0
  /\ db = "null"
  /\ itemsCache = <<>>
  /\ pc = "openDb"
  /\ catalog = <<>>
  /\ idx = 0
  /\ pending = NoItem
  /\ listening = FALSE
  /\ search = <<>>
  /\ hero = NoHero
  /\ rows = <<>>
  /\ shown = NotShown
  /\ fetches = 0
  /\ fetchRes = "none"
  /\ fetched = 0
  /\ reloadRes = "none"
  /\ puts = <<>>
  /\ startCount = 0
  /\ calls = 0
  /\ mark = NoMark
  /\ warned = NoWarning

\* --------------------------------------------------------------- openDb
\* indexedDB.open succeeds; onupgradeneeded creates the items store only
\* when the database has none, so its records stay as they are.
OpenDbSuccess ==
  /\ pc = "openDb"
  /\ db' = "open"
  /\ pc' = "loadItems"
  /\ UNCHANGED <<durable, itemsCache, seedVars, viewVars, logVars>>

\* indexedDB.open fails: init() rejects at its first await.
OpenDbError ==
  /\ pc = "openDb"
  /\ pc' = "rejected"
  /\ UNCHANGED <<durable, cacheVars, seedVars, viewVars, logVars>>

\* ------------------------------------------------------------ loadItems
\* A loadItems that drops the result of getAll.
LoadedNothing(st) == <<>>

\* What loadItems assigns to itemsCache when getAll succeeds (items || []).
LoadedItems(st) == st

\* init's loadItems: getAll succeeds.
LoadItemsSuccess ==
  /\ pc = "loadItems"
  /\ itemsCache' = LoadedItems(store)
  /\ pc' = "seedCheck"
  /\ UNCHANGED <<durable, db, seedVars, viewVars, logVars>>

\* init's loadItems: getAll fails, init() rejects.
LoadItemsError ==
  /\ pc = "loadItems"
  /\ pc' = "rejected"
  /\ UNCHANGED <<durable, cacheVars, seedVars, viewVars, logVars>>

\* ------------------------------------------------ seedFromCatalogIfEmpty
\* The function returns to init (normally, or out of its catch block).
SeedReturns ==
  /\ pc' = "setupUI"
  /\ catalog' = <<>>
  /\ idx' = 0
  /\ pending' = NoItem

\* The text of the catch block's console.warn.
WarnMessage ==
  <<"N", "o", " ", "c", "a", "t", "a", "l", "o", "g", " ", "s", "e", "e", "d">>

\* The catch block: whatever was thrown (err) is logged under the one
\* message, and the function returns undefined as on every other path.
Caught(err) ==
  /\ warned' = [msg |-> WarnMessage, err |-> err]
  /\ SeedReturns

\* The value the promise of seedFromCatalogIfEmpty resolves with: the
\* function has no return value on any path.
SeedResult == Undef

\* Entry: a non-empty itemsCache returns at once, else the fetch is issued.
SeedCheck ==
  /\ pc = "seedCheck"
  /\ calls' = calls + 1
  /\ mark' = [fetches |-> fetches, puts |-> Len(puts), stored |-> Len(store)]
  /\ IF Len(itemsCache) > 0
     THEN /\ SeedReturns
          /\ fetches' = fetches
     ELSE /\ pc' = "fetch"
          /\ fetches' = fetches + 1
          /\ UNCHANGED seedVars
  /\ UNCHANGED <<durable, cacheVars, viewVars, fetchRes, fetched, reloadRes,
                 puts, warned>>

\* fetch() rejects (network error): caught, logged.
FetchRejects ==
  /\ pc = "fetch"
  /\ fetchRes' = "network"
  /\ Caught("network")
  /\ UNCHANGED <<durable, cacheVars, viewVars, fetches, fetched, reloadRes,
                 puts, calls, mark>>

\* A response whose status is checked by nobody: its body is parsed and
\* seeded like a catalog.
FetchNotOkUnchecked ==
  /\ pc = "fetch"
  /\ \E m \in Manifests :
       /\ catalog' = m
       /\ fetched' = Len(m)
       /\ idx' = 1
  /\ fetchRes' = "status"
  /\ pc' = "loop"
  /\ UNCHANGED <<durable, cacheVars, pending, viewVars, fetches, reloadRes,
                 puts, calls, mark, warned>>

\* res.ok is false: the function throws, caught, logged.
FetchNotOk ==
  /\ pc = "fetch"
  /\ fetchRes' = "status"
  /\ Caught("status")
  /\ UNCHANGED <<durable, cacheVars, viewVars, fetches, fetched, reloadRes,
                 puts, calls, mark>>

\* res.json() rejects (malformed JSON): caught, logged.
FetchBadJson ==
  /\ pc = "fetch"
  /\ fetchRes' = "json"
  /\ Caught("json")
  /\ UNCHANGED <<durable, cacheVars, viewVars, fetches, fetched, reloadRes,
                 puts, calls, mark>>

\* The response is ok and its body parses to an array of records.
FetchOk ==
  /\ pc = "fetch"
  /\ \E m \in Manifests :
       /\ catalog' = m
       /\ fetched' = Len(m)
       /\ idx' = 1
  /\ fetchRes' = "ok"
  /\ pc' = "loop"
  /\ UNCHANGED <<durable, cacheVars, pending, viewVars, fetches, reloadRes,
                 puts, calls, mark, warned>>

\* One turn of the for-of loop up to its await: the record is normalized
\* (Date.now() is read when the record has no id) and the put is issued;
\* after the last record the reload is issued.
LoopNext ==
  /\ pc = "loop"
  /\ IF idx > Len(catalog)
     THEN /\ pc' = "reload"
          /\ UNCHANGED <<pending, clock>>
     ELSE \E now \in clock..MaxClock :
            /\ ~NormalizeThrows(catalog[idx])
            /\ Truthy(catalog[idx].id) => now = clock
            /\ clock' = now
            /\ pending' = Normalize(catalog[idx], now)
            /\ pc' = "put"
  /\ UNCHANGED <<store, startCount, cacheVars, catalog, idx, viewVars,
                 logVars>>

\* One turn of the for-of loop whose body throws while it builds the item:
\* the catch block ends the loop, no put is issued for this record or any
\* after it, and the reload after the loop is skipped.
LoopThrows ==
  /\ pc = "loop"
  /\ idx <= Len(catalog)
  /\ NormalizeThrows(catalog[idx])
  /\ Caught("type")
  /\ UNCHANGED <<durable, cacheVars, viewVars, fetches, fetchRes, fetched,
                 reloadRes, puts, calls, mark>>

\* The log entry of the put in flight: its item, whether the item's id was
\* derived (the record had none), and how the put ended.
PutEntry(res) ==
  [item |-> pending, derived |-> ~Truthy(catalog[idx].id), res |-> res]

\* The put request succeeds and its transaction commits: idbPut resolves.
PutSuccess ==
  /\ pc = "put"
  /\ store' = StorePut(store, pending)
  /\ puts' = Append(puts, PutEntry("stored"))
  /\ idx' = idx + 1
  /\ pc' = "loop"
  /\ UNCHANGED <<clock, startCount, cacheVars, catalog, pending, viewVars,
                 fetches, fetchRes, fetched, reloadRes, calls, mark, warned>>

\* The put request succeeds, idbPut resolves on r.onsuccess, and then the
\* transaction aborts at commit (quota): nothing is stored.
PutSuccessThenAbort ==
  /\ pc = "put"
  /\ Aborts < MaxAborts
  /\ puts' = Append(puts, PutEntry("aborted"))
  /\ idx' = idx + 1
  /\ pc' = "loop"
  /\ UNCHANGED <<durable, cacheVars, catalog, pending, viewVars, fetches,
                 fetchRes, fetched, reloadRes, calls, mark, warned>>

\* The put request fails: idbPut rejects, the loop is left through the
\* catch block, the reload after the loop is skipped.
PutError ==
  /\ pc = "put"
  /\ puts' = Append(puts, PutEntry("rejected"))
  /\ Caught("put")
  /\ UNCHANGED <<durable, cacheVars, viewVars, fetches, fetchRes, fetched,
                 reloadRes, calls, mark>>

\* The loadItems after the loop: getAll succeeds.
ReloadSuccess ==
  /\ pc = "reload"
  /\ itemsCache' = LoadedItems(store)
  /\ reloadRes' = "ok"
  /\ SeedReturns
  /\ UNCHANGED <<durable, db, viewVars, fetches, fetchRes, fetched, puts,
                 calls, mark, warned>>

\* The loadItems after the loop: getAll fails, caught, logged.
ReloadError ==
  /\ pc = "reload"
  /\ reloadRes' = "error"
  /\ Caught("getAll")
  /\ UNCHANGED <<durable, cacheVars, viewVars, fetches, fetchRes, fetched,
                 puts, calls, mark>>

\* ------------------------------------------------------------- rendering
\* renderAll: the hero from the whole cache, then the rows of its groups;
\* when groupItems throws, renderRows is never reached.
RenderAllView ==
  LET g == GroupItems(itemsCache)
  IN [hero |-> HeroOf(itemsCache),
      threw |-> g.threw,
      rows |-> IF g.threw THEN rows ELSE RenderRows(g.groups),
      shown |-> IF g.threw THEN shown ELSE [kind |-> "all", q |-> <<>>]]

\* An onSearch that renders the filtered items the way renderAll renders
\* the cache, hero included.
OnSearchViewWithHero(value) ==
  LET q == Trim(ToLowerCase(value))
      filtered == FilterItems(itemsCache, q)
      g == GroupItems(filtered)
  IN [hero |-> HeroOf(filtered),
      threw |-> g.threw,
      rows |-> IF g.threw THEN rows ELSE RenderRows(g.groups),
      shown |-> IF g.threw THEN shown ELSE [kind |-> "search", q |-> q]]

\* An onSearch that returns on an empty query without drawing anything.
OnSearchViewSkipsEmpty(value) ==
  LET q == Trim(ToLowerCase(value))
      g == GroupItems(FilterItems(itemsCache, q))
  IN IF q = <<>> \/ g.threw
     THEN [hero |-> hero, threw |-> q # <<>>, rows |-> rows, shown |-> shown]
     ELSE [hero |-> hero, threw |-> FALSE, rows |-> RenderRows(g.groups),
           shown |-> [kind |-> "search", q |-> q]]

\* onSearch for an input whose value is `value`.
OnSearchView(value) ==
  LET q == Trim(ToLowerCase(value))
  IN IF q = <<>> THEN RenderAllView
     ELSE LET g == GroupItems(FilterItems(itemsCache, q))
          IN [hero |-> hero,
              threw |-> g.threw,
              rows |-> IF g.threw THEN rows ELSE RenderRows(g.groups),
              shown |-> IF g.threw THEN shown
                        ELSE [kind |-> "search", q |-> q]]

\* An init() that does not await seedFromCatalogIfEmpty: setupUI and
\* renderAll run as soon as the seeding call has issued its fetch.
StartUIUnawaited ==
  /\ pc \in {"setupUI", "fetch"}
  /\ ~listening
  /\ listening' = TRUE
  /\ LET v == RenderAllView
     IN /\ hero' = v.hero
        /\ rows' = v.rows
        /\ shown' = v.shown
        /\ pc' = IF pc = "fetch" THEN pc
                 ELSE IF v.threw THEN "rejected" ELSE "ready"
  /\ UNCHANGED <<durable, cacheVars, seedVars, search, logVars>>

\* The rest of init after seeding, one synchronous run: setupUI registers
\* the listeners, renderAll draws; a throw in renderAll rejects init().
StartUI ==
  /\ pc = "setupUI"
  /\ listening' = TRUE
  /\ LET v == RenderAllView
     IN /\ hero' = v.hero
        /\ rows' = v.rows
        /\ shown' = v.shown
        /\ pc' = IF v.threw THEN "rejected" ELSE "ready"
  /\ UNCHANGED <<durable, cacheVars, seedVars, search, logVars>>

\* An onSearch that assigns the filtered items to itemsCache before it
\* groups them.
InputEventNarrowsCache(value) ==
  /\ listening
  /\ search' = value
  /\ LET v == OnSearchView(value)
         q == Trim(ToLowerCase(value))
     IN /\ hero' = v.hero
        /\ rows' = v.rows
        /\ shown' = v.shown
        /\ itemsCache' =
             IF q = <<>> THEN itemsCache ELSE FilterItems(itemsCache, q)
  /\ UNCHANGED <<durable, db, pc, seedVars, listening, logVars>>

\* The input event of #search with the box holding `value`.
InputEvent(value) ==
  /\ listening
  /\ search' = value
  /\ LET v == OnSearchView(value)
     IN /\ hero' = v.hero
        /\ rows' = v.rows
        /\ shown' = v.shown
  /\ UNCHANGED <<durable, cacheVars, pc, seedVars, listening, logVars>>

\* The user types a character.
TypeKey ==
  /\ Len(search) < MaxQueryLen
  /\ \E c \in SearchKeys : InputEvent(Append(search, c))

\* The user deletes the last character.
Backspace ==
  /\ search # <<>>
  /\ InputEvent(SubSeq(search, 1, Len(search) - 1))

\* --------------------------------------------------------------- sessions
\* The page is closed or reloaded and opened again; a put still in flight
\* is lost.
Reload ==
  /\ FreshPage(store)
  /\ UNCHANGED <<store, clock>>

\* The page is reloaded while a put is in flight and the write commits.
ReloadAfterCommit ==
  /\ pc = "put"
  /\ store' = StorePut(store, pending)
  /\ FreshPage(store')
  /\ UNCHANGED clock

\* A caller that awaits seedFromCatalogIfEmpty a second time, right after
\* the first call returned.
SeedAgain ==
  /\ pc = "setupUI"
  /\ calls = 1
  /\ pc' = "seedCheck"
  /\ UNCHANGED <<durable, cacheVars, seedVars, viewVars, logVars>>

\* The steps of init() in one page load.
InitNext ==
  \/ OpenDbSuccess
  \/ OpenDbError
  \/ LoadItemsSuccess
  \/ LoadItemsError
  \/ SeedCheck
  \/ FetchRejects
  \/ FetchNotOk
  \/ FetchBadJson
  \/ FetchOk
  \/ LoopNext
  \/ LoopThrows
  \/ PutSuccess
  \/ PutSuccessThenAbort
  \/ PutError
  \/ ReloadSuccess
  \/ ReloadError
  \/ StartUI

Next ==
  \/ InitNext
  \/ TypeKey
  \/ Backspace
  \/ Reload
  \/ ReloadAfterCommit

\* init() as the page runs it, the user typing, over page loads.
Spec == Init /\ [][Next]_vars

NextTwice ==
  \/ InitNext
  \/ SeedAgain

\* One page load in which seedFromCatalogIfEmpty is awaited twice in a row.
SpecTwice == Init /\ [][NextTwice]_vars

\* One page load on a new database in which every request that is pending
\* (open, getAll, fetch, put) is answered in the end, one way or the other,
\* and every synchronous stretch of init() runs on.
SpecLive == Init /\ [][InitNext]_vars /\ WF_vars(InitNext)

\* ============================================================ properties
\* seedFromCatalogIfEmpty has returned to its caller.
SeedReturned == calls >= 1 /\ (pc \in {"setupUI", "ready"} \/ listening)

\* The catalog was fetched and parsed.
FetchSucceeded == fetchRes = "ok"

Stored(i) == puts[i].res = "stored"

\* The items a card of the rows shows (placeholders left out).
ShownItems ==
  {rows[r].cards[k] : r \in 1..Len(rows), k \in 1..CARDS_PER_ROW}
    \ {NullSlot}

\* The items the call that filled the rows was to show.
Candidates ==
  IF shown.kind = "search" THEN FilterItems(itemsCache, shown.q)
  ELSE itemsCache

\* C1: when seedFromCatalogIfEmpty is called a second time and the store
\* held a record when that call began (no getAll having failed), the second
\* call fetches nothing and puts nothing.
IdempotentSeeding ==
  (calls = 2 /\ mark.stored > 0 /\ reloadRes # "error")
    => (fetches = mark.fetches /\ Len(puts) = mark.puts)

\* C2: once seeding has returned after a successful fetch, a put was
\* attempted for every record of the catalog, whichever puts failed.
PutsIndependent ==
  (SeedReturned /\ FetchSucceeded) => Len(puts) = fetched

\* C3: once seeding has returned after a successful fetch, and no getAll
\* failed, itemsCache holds exactly the records of the store, whether or not
\* a put failed.
CacheReloadedAfterSeed ==
  (SeedReturned /\ FetchSucceeded /\ reloadRes # "error")
    => itemsCache = store

\* C4: when the fetch fails (network error, bad status, malformed JSON),
\* seeding returns normally having put nothing, itemsCache stays empty, and
\* the view drawn afterwards is the "No content" hero with no row.
FetchFailureLeavesEmpty ==
  (SeedReturned /\ fetchRes \in {"network", "status", "json"})
    => /\ pc # "rejected"
       /\ puts = <<>>
       /\ store = <<>>
       /\ itemsCache = <<>>
       /\ listening => (hero = NoContentHero /\ rows = <<>>)

FetchFailureShown ==
  /\ pc = "ready"
  /\ fetchRes = "network"
  /\ hero = NoContentHero
  /\ shown.kind = "all"
  /\ rows = <<>>

\* C5: two records without an id never get the same id in one seeding run,
\* so a catalog of n such records whose puts are all stored leaves n records
\* in the store.
DerivedIdsDistinct ==
  /\ \A i, j \in 1..Len(puts) :
       (i < j /\ puts[i].derived /\ puts[j].derived)
         => puts[i].item.id # puts[j].item.id
  /\ ( /\ SeedReturned
       /\ FetchSucceeded
       /\ Len(puts) = fetched
       /\ \A i \in 1..Len(puts) : puts[i].derived /\ Stored(i) )
       => Len(store) = fetched

\* Put i is the last stored put of this session with its id.
LastStored(i) ==
  /\ Stored(i)
  /\ \A k \in (i + 1)..Len(puts) :
       Stored(k) => puts[k].item.id # puts[i].item.id

\* C6: no two records of the store share an id, and for every id put in
\* this session the store holds one record, the item of the last stored put
\* with that id.
Upsert ==
  /\ \A i, j \in 1..Len(store) : i # j => store[i].id # store[j].id
  /\ startCount = 0 =>
       \A i \in 1..Len(puts) :
         LastStored(i) =>
           /\ Cardinality({k \in 1..Len(store) :
                             store[k].id = puts[i].item.id}) = 1
           /\ \E k \in 1..Len(store) : store[k] = puts[i].item

UpsertReplaced ==
  \E i, j \in 1..Len(puts) :
    /\ i < j
    /\ Stored(i)
    /\ Stored(j)
    /\ puts[i].item.id = puts[j].item.id
    /\ puts[i].item # puts[j].item
    /\ Len(store) = 1

\* The rows of category cat, in order.
RowsOf(cat) ==
  SelectSeq(rows, LAMBDA r : r.label = cat \/ r.label = cat \o MoreSuffix)

RealCards(row) ==
  Cardinality({k \in 1..Len(row.cards) : row.cards[k] # NullSlot})

\* C7: a category with n >= 1 items shown has ceil(n / 8) rows of 8 slots
\* each; every row but the last holds 8 items, the last holds n mod 8 items
\* (8 when n mod 8 = 0) followed only by placeholders.
Pagination ==
  shown.kind # "none" =>
    LET cands == Candidates
    IN \A cat \in {CategoryKey(cands[c]) : c \in 1..Len(cands)} :
      LET n == Cardinality({k \in 1..Len(cands) :
                              CategoryKey(cands[k]) = cat})
          rs == RowsOf(cat)
          last == IF n % CARDS_PER_ROW = 0 THEN CARDS_PER_ROW
                  ELSE n % CARDS_PER_ROW
      IN /\ Len(rs) = (n + CARDS_PER_ROW - 1) \div CARDS_PER_ROW
         /\ \A r \in 1..Len(rs) :
              /\ Len(rs[r].cards) = CARDS_PER_ROW
              /\ r < Len(rs) => RealCards(rs[r]) = CARDS_PER_ROW
              /\ r = Len(rs) =>
                   \A k \in 1..CARDS_PER_ROW :
                     (rs[r].cards[k] # NullSlot) <=> (k <= last)

PaginationSecondRow ==
  /\ shown.kind = "all"
  /\ Len(itemsCache) = CARDS_PER_ROW + 1
  /\ Len(rows) = 2
  /\ rows[2].label = <<"D">> \o MoreSuffix
  /\ RealCards(rows[2]) = 1

\* s holds q when both are compared in lower case.
HoldsIgnoringCase(s, q) == Includes(ToLowerCase(s), ToLowerCase(q))

\* C8, as stated: every item in the rows of a search holds the query in its
\* title, in its description or in its category, case ignored.
SearchNarrowingByField ==
  shown.kind = "search" =>
    \A i \in ShownItems :
      \/ HoldsIgnoringCase(i.title, shown.q)
      \/ HoldsIgnoringCase(i.description, shown.q)
      \/ HoldsIgnoringCase(i.category, shown.q)

\* C8, amended: every item in the rows a search rendered holds that
\* search's trimmed, lower-cased query in the lower-cased text
\* "title description category" (the three fields joined by single spaces).
SearchNarrowing ==
  shown.kind = "search" =>
    \A i \in ShownItems :
      Includes(ToLowerCase(i.title \o <<" ">> \o i.description \o <<" ">>
                             \o i.category),
               shown.q)

SearchNarrowed ==
  /\ shown.kind = "search"
  /\ shown.q = Trim(ToLowerCase(search))
  /\ ShownItems # {}
  /\ \E k \in 1..Len(itemsCache) : itemsCache[k] \notin ShownItems

\* C9: while the page is up the hero is the one picked from the whole
\* cache, whatever was typed into the search box.
HeroStable == listening => hero = HeroOf(itemsCache)

HeroOutsideSearch ==
  /\ shown.kind = "search"
  /\ search # <<>>
  /\ hero \notin ShownItems
  /\ hero # HeroOf(FilterItems(itemsCache, shown.q))
  /\ \E k \in 1..Len(itemsCache) : itemsCache[k] = hero

\* C10: a session that began with a record in the store fetches nothing,
\* puts nothing and leaves the store as it found it.
SeedsAtMostOnce ==
  startCount > 0 =>
    /\ fetches = 0
    /\ puts = <<>>
    /\ Len(store) = startCount
    /\ pc \notin {"fetch", "loop", "put", "reload"}

PartialCatalogKept ==
  /\ pc = "ready"
  /\ startCount = 2
  /\ store = <<Normalize(BulkRecord(1), 0), Normalize(BulkRecord(2), 0)>>
  /\ itemsCache = store

\* init() stands inside openDb, loadItems or seedFromCatalogIfEmpty.
BeforeUI ==
  pc \in {"openDb", "loadItems", "seedCheck", "fetch", "loop", "put", "reload"}

\* C11: whenever a view has been drawn or the search handler is registered,
\* seedFromCatalogIfEmpty has been called and has returned: no fetch, put or
\* reload of it is in flight, and when every record was put with no put
\* rejected the reload after the loop has ended too.  While init() stands
\* before setupUI nothing is drawn and no input event is handled.
SessionStartOrdering ==
  /\ (listening \/ hero # NoHero \/ shown # NotShown \/ rows # <<>>) =>
       /\ pc \in {"ready", "rejected"}
       /\ calls = 1
       /\ pending = NoItem
       /\ ( /\ fetchRes = "ok"
            /\ Len(puts) = fetched
            /\ \A i \in 1..Len(puts) : puts[i].res # "rejected" )
            => reloadRes # "none"
  /\ BeforeUI =>
       (~listening /\ hero = NoHero /\ shown = NotShown /\ search = <<>>)

SearchAfterSeeding ==
  /\ pc = "ready"
  /\ shown.kind = "search"
  /\ fetchRes = "ok"
  /\ reloadRes = "ok"
  /\ Len(puts) = 2
  /\ itemsCache = store
  /\ ShownItems # {}

\* The defaults the seeding loop gives to the fields a record lacks.
Defaulted(it, item) ==
  /\ Truthy(item.id)
  /\ item.title = (IF Truthy(it.title) THEN it.title ELSE Untitled)
  /\ item.description =
       (IF Truthy(it.description) THEN it.description ELSE <<>>)
  /\ item.poster = (IF Truthy(it.poster) THEN it.poster ELSE <<>>)
  /\ item.category =
       (IF Truthy(it.category) THEN it.category ELSE Uncategorized)
  /\ Head(item.sources) = "[]"

\* C12: once seeding has returned after a successful fetch in which no put
\* was rejected, every element of the catalog, well formed or not, was
\* turned into one item with its defaults filled in and put: no element
\* made the loop throw or kept the elements after it from being seeded.
NormalizationTotal ==
  /\ pc = "put" => Defaulted(catalog[idx], pending)
  /\ (SeedReturned /\ FetchSucceeded
        /\ \A i \in 1..Len(puts) : puts[i].res # "rejected")
       => Len(puts) = fetched

\* The number of puts of this session that were stored.
StoredCount == Cardinality({i \in 1..Len(puts) : Stored(i)})

\* The seeding call reports the count n: as the value it resolves with, or
\* with the warning it logs.
ReportsCount(n) ==
  \/ SeedResult = NumToStr(n)
  \/ "count" \in DOMAIN warned /\ warned.count = n

\* C13: once seeding has returned with a put rejected, the call has reported
\* a condition (unlike a seed in which nothing failed) that carries the
\* count of the puts that succeeded, and the session goes on with what was
\* persisted: itemsCache holds the records of the store.
PartialFailureReported ==
  (SeedReturned /\ \E i \in 1..Len(puts) : puts[i].res = "rejected") =>
    /\ warned # NoWarning
    /\ ReportsCount(StoredCount)
    /\ itemsCache = store

\* C14: the hero drawn by renderAll is, for an empty cache, the "No content"
\* sentinel with the accent #e50914; else the item at the least position of
\* the cache whose themeColor is not null; else, no item having one, the
\* first item of the cache.
HeroSelection ==
  listening =>
    LET themed == {i \in 1..Len(itemsCache) : itemsCache[i].themeColor # Null}
    IN /\ itemsCache = <<>> =>
            /\ hero.title = <<"N", "o", " ", "c", "o", "n", "t", "e", "n", "t">>
            /\ hero.themeColor = <<"#", "e", "5", "0", "9", "1", "4">>
            /\ hero.poster = <<>>
       /\ (itemsCache # <<>> /\ themed = {}) => hero = itemsCache[1]
       /\ themed # {} =>
            \E i \in themed : hero = itemsCache[i] /\ \A j \in themed : i <= j

HeroThemedSecond ==
  /\ pc = "ready"
  /\ Len(itemsCache) = 2
  /\ itemsCache[1].themeColor = Null
  /\ itemsCache[2].themeColor = <<"#", "1">>
  /\ hero = itemsCache[2]

\* The position of a shown item in the candidate sequence.
PosIn(cands, item) == CHOOSE k \in 1..Len(cands) : cands[k] = item

\* The position at which category cat is first met in the candidates.
FirstPos(cands, cat) ==
  CHOOSE k \in 1..Len(cands) :
    /\ CategoryKey(cands[k]) = cat
    /\ \A j \in 1..(k - 1) : CategoryKey(cands[j]) # cat

\* The category of a row: that of its first card, which is never a
\* placeholder.
RowCat(row) == CategoryKey(row.cards[1])

\* C15: the rows shown follow the order in which their categories are first
\* met in the candidate sequence, whatever the category names are, and the
\* items of one category follow each other, across its rows, in their
\* candidate order.
GroupingOrder ==
  shown.kind # "none" =>
    LET cands == Candidates
    IN \A r1, r2 \in 1..Len(rows) :
         r1 <= r2 =>
           /\ FirstPos(cands, RowCat(rows[r1]))
                <= FirstPos(cands, RowCat(rows[r2]))
           /\ RowCat(rows[r1]) = RowCat(rows[r2]) =>
                \A k1, k2 \in 1..CARDS_PER_ROW :
                  ( /\ rows[r1].cards[k1] # NullSlot
                    /\ rows[r2].cards[k2] # NullSlot
                    /\ (r1 < r2 \/ k1 < k2) )
                  => PosIn(cands, rows[r1].cards[k1])
                       < PosIn(cands, rows[r2].cards[k2])

\* The search box holds nothing but white space.
BlankSearch == \A k \in 1..Len(search) : search[k] = " "

\* C16: while the page is up and the search box is empty or holds only
\* white space, the rows are those of the whole cache with no filter: the
\* rows renderAll draws, showing every item of the cache.
BlankSearchUnfiltered ==
  (pc = "ready" /\ BlankSearch) =>
    /\ shown.kind = "all"
    /\ rows = RenderRows(GroupItems(itemsCache).groups)
    /\ ShownItems = {itemsCache[k] : k \in 1..Len(itemsCache)}

BlankSearchShown ==
  /\ pc = "ready"
  /\ search = <<" ", " ">>
  /\ shown.kind = "all"
  /\ Len(itemsCache) = 2
  /\ Len(rows) = 2

\* C17: an idbPut that resolved (the seeding loop went on after it) has its
\* item in the store: until the next put, the store holds the item of the
\* last put unless that put was rejected; a write that was rejected or
\* aborted never counts as resolved.
PutDurablyAcknowledged ==
  (puts # <<>> /\ puts[Len(puts)].res # "rejected") =>
    \E k \in 1..Len(store) : store[k] = puts[Len(puts)].item

\* C18: a step in which the search handler runs (the box changes while the
\* listener stays registered) leaves the store, the cache and the database
\* handle as they were, issues no fetch, put or getAll, and leaves init()
\* where it stood.
SearchOnlyRedraws ==
  [][(listening /\ listening' /\ search' # search) =>
       /\ store' = store
       /\ itemsCache' = itemsCache
       /\ db' = db
       /\ fetches' = fetches
       /\ puts' = puts
       /\ pending' = pending
       /\ reloadRes' = reloadRes
       /\ calls' = calls
       /\ pc' = pc]_vars

SearchedOverStore ==
  /\ pc = "ready"
  /\ shown.kind = "search"
  /\ search # <<>>
  /\ Len(store) = 2
  /\ itemsCache = store
  /\ Cardinality(ShownItems) = 1
  /\ fetches = 1
  /\ Len(puts) = 2

\* The items the view of the current search text is to show.
CurrentCandidates ==
  LET q == Trim(ToLowerCase(search))
  IN IF q = <<>> THEN itemsCache ELSE FilterItems(itemsCache, q)

\* The slots of the rows: row number and position in the row.
Slots == (1..Len(rows)) \X (1..CARDS_PER_ROW)

\* C19: once the view is drawn, every candidate item of the current search
\* fills exactly one slot of the rows, every filled slot holds a candidate,
\* and the row of a filled slot is labelled with the category of its item
\* (followed by " (more)" in a later row of that category).
RowsPartitionCandidates ==
  listening =>
    LET cands == CurrentCandidates
    IN /\ \A c \in 1..Len(cands) :
            Cardinality({sl \in Slots :
                           rows[sl[1]].cards[sl[2]] = cands[c]}) = 1
       /\ \A sl \in Slots :
            LET card == rows[sl[1]].cards[sl[2]]
            IN card # NullSlot =>
                 /\ \E c \in 1..Len(cands) : cands[c] = card
                 /\ rows[sl[1]].label
                      \in {card.category, card.category \o MoreSuffix}

\* C20: once the store is open and the first getAll has succeeded, init()
\* gets through seeding, whatever its fetch and puts do, and draws the
\* initial view: hero and rows of the whole cache.
InitReachesView ==
  (pc = "seedCheck") ~> (pc = "ready" /\ shown.kind = "all")

====
